---- MODULE Spec2Model ----
(***************************************************************************)
(* Model of app.py: the Appium driver script that places an AR object,     *)
(* reads its coordinates back through the ar_coords_textview element and   *)
(* runs operator-gated gesture steps.                                      *)
(*                                                                         *)
(* Text is modelled as a sequence of one-character strings, so that        *)
(* str.strip, str.split, float() and int() are computed on the characters. *)
(* Time is counted in ticks of 0.5 s (the poll interval of the bridge).    *)
(***************************************************************************)
EXTENDS Integers, Sequences, FiniteSets, TLC

VARIABLES
    pc,               \* position of the __main__ block ("harness": a bare call of one function)
    step,             \* the step of the __main__ block being run
    driver,           \* the driver variable: "None", "open" (session attached), "quit"
    quitCount,        \* number of driver.quit() calls issued
    lastOp,           \* the last call issued on the driver
    contexts,         \* switch_to_web_context: the enumerated contexts
    current_context,  \* the handle's active rendering context
    ans,              \* run_step: the operator's answer as typed
    retval,           \* the value run_step or switch_to_web_context returned ("none": not returned)
    shots,            \* run_step: screenshots captured by the current call
    gestured,         \* run_step: gestures performed by the current call
    gestureAt,        \* the coordinates given to the last gesture
    ar,               \* the carried-forward coordinates (ar_x, ar_y)
    exc,              \* the exception raised ("none" if none)
    bpc,              \* position inside get_ar_object_coords
    timeout,          \* get_ar_object_coords: its timeout argument, in ticks
    elapsed,          \* get_ar_object_coords: time.time() - start, in ticks
    pollCount,        \* get_ar_object_coords: settle-phase reads done by the current call
    text,             \* get_ar_object_coords: what the current iteration read (Missing: no element)
    result,           \* get_ar_object_coords: the returned (x, y)
    probe             \* the target application's probe element: Missing or its text

vars == <<pc, step, driver, quitCount, lastOp, contexts, current_context, ans, retval,
          shots, gestured, gestureAt, ar, exc, bpc, timeout, elapsed, pollCount, text,
          result, probe>>

mainVars == <<pc, step, driver, quitCount, contexts, current_context, ans, retval,
              shots, gestured, gestureAt, ar>>

bridgeVars == <<bpc, timeout, elapsed, pollCount, text, result>>

-----------------------------------------------------------------------------
(* Bounds and program constants *)

\* the longest a single read of the probe element takes, in ticks
MaxLatency == 1

TicksPerSec == 2
PollInterval == 1
PresenceSec == 5
DefaultTimeoutSec == 15
InitialTimeoutSec == 20
RereadTimeoutSec == 10

\* the timeouts a bare call of get_ar_object_coords is given, in seconds
HarnessTimeouts == {0, 5, DefaultTimeoutSec}

-----------------------------------------------------------------------------
(* Text *)

Digits == <<"0", "1", "2", "3", "4", "5", "6", "7", "8", "9">>

IsDigit(c) == \E i \in 1..10 : Digits[i] = c

DigitVal(c) == (CHOOSE i \in 1..10 : Digits[i] = c) - 1

IsSpace(c) == c = " "

RECURSIVE LStrip(_)
LStrip(s) == IF s # <<>> /\ IsSpace(Head(s)) THEN LStrip(Tail(s)) ELSE s

RECURSIVE RStrip(_)
RStrip(s) ==
    IF s # <<>> /\ IsSpace(s[Len(s)]) THEN RStrip(SubSeq(s, 1, Len(s) - 1)) ELSE s

\* str.strip()
Strip(s) == RStrip(LStrip(s))

\* str.lower() on the letters the operator's answers use
LowerChar(c) == IF c = "Y" THEN "y" ELSE IF c = "N" THEN "n" ELSE c

Lower(s) == [i \in 1..Len(s) |-> LowerChar(s[i])]

\* str.split(sep): the fields between the separators, empty fields kept
RECURSIVE Split(_, _)
Split(s, sep) ==
    IF \E i \in 1..Len(s) : s[i] = sep
    THEN LET i == CHOOSE k \in 1..Len(s) : s[k] = sep /\ \A j \in 1..(k - 1) : s[j] # sep
         IN  <<SubSeq(s, 1, i - 1)>> \o Split(SubSeq(s, i + 1, Len(s)), sep)
    ELSE <<s>>

RECURSIVE DigitsToNat(_)
DigitsToNat(s) ==
    IF s = <<>> THEN 0 ELSE 10 * DigitsToNat(SubSeq(s, 1, Len(s) - 1)) + DigitVal(s[Len(s)])

AllDigits(s) == \A i \in 1..Len(s) : IsDigit(s[i])

\* float(): surrounding whitespace is dropped, then an optional sign, then inf, nan
\* or a decimal with at least one digit and at most one point. (The texts of the
\* model use no exponent and no underscore.)
UnsignedFloat(neg, body) ==
    IF body \in {<<"i", "n", "f">>, <<"i", "n", "f", "i", "n", "i", "t", "y">>}
    THEN [tag |-> "inf", neg |-> neg]
    ELSE IF body = <<"n", "a", "n">>
    THEN [tag |-> "nan"]
    ELSE LET f == Split(body, ".")
             ip == f[1]
             fp == IF Len(f) = 2 THEN f[2] ELSE <<>>
         IN  IF /\ Len(f) <= 2
                /\ AllDigits(ip) /\ AllDigits(fp)
                /\ Len(ip) + Len(fp) >= 1
             THEN [tag |-> "num", neg |-> neg, ip |-> DigitsToNat(ip),
                   fnz |-> DigitsToNat(fp) # 0]
             ELSE [tag |-> "ValueError"]

PyFloat(s) ==
    LET t == Strip(s)
    IN  IF t = <<>> THEN [tag |-> "ValueError"]
        ELSE IF Head(t) = "-" THEN UnsignedFloat(TRUE, Tail(t))
        ELSE IF Head(t) = "+" THEN UnsignedFloat(FALSE, Tail(t))
        ELSE UnsignedFloat(FALSE, t)

\* rounding toward minus infinity (what math.floor would give)
TruncFloor(f) == IF f.neg /\ f.fnz THEN -f.ip - 1 ELSE IF f.neg THEN -f.ip ELSE f.ip

\* int() of a finite float: truncation toward zero
Trunc(f) == IF f.neg THEN -f.ip ELSE f.ip

\* int(float(s)): the integer, or the exception raised
IntFloat(s) ==
    LET f == PyFloat(s)
    IN  IF f.tag = "ValueError" THEN [tag |-> "ValueError"]      \* float() fails
        ELSE IF f.tag = "nan" THEN [tag |-> "ValueError"]        \* int(nan)
        ELSE IF f.tag = "inf" THEN [tag |-> "OverflowError"]     \* int(inf)
        ELSE [tag |-> "int", val |-> Trunc(f)]

-----------------------------------------------------------------------------
(* The probe element *)

Missing == <<"MISSING">>
Unread == <<"UNREAD">>
NoPoint == <<>>

T_empty == <<>>                                            \* ""
T_dash == <<"-">>                                          \* "-"
T_dashsp == <<" ", "-">>                                   \* " -"
T_nocomma == <<"1", "2">>                                  \* "12"
T_alpha == <<"a", ",", "b">>                               \* "a,b"
T_three == <<"1", ",", "2", ",", "3">>                     \* "1,2,3"
T_partial == <<"1", "2", "0", ",">>                        \* "120,"
T_inf == <<"i", "n", "f", ",", "5">>                       \* "inf,5"
T_nan == <<"5", ",", "n", "a", "n">>                       \* "5,nan"
T_valid == <<"1", "2", "0", ",", "3", "4", "0">>           \* "120,340"
T_frac == <<" ", "1", "2", ".", "7", ",", "3", ".", "9">>  \* " 12.7,3.9"
T_neg == <<"-", "0", ".", "5", ",", "-", "7">>             \* "-0.5,-7"

ProbeTexts == {T_empty, T_dash, T_dashsp, T_nocomma, T_alpha, T_three, T_partial,
               T_inf, T_nan, T_valid, T_frac, T_neg}

ProbeStates == {Missing} \cup ProbeTexts

\* line 115 with a freshness test added: a text that encodes the Point the
\* caller already holds is treated as not set
IsSetFresh(t) ==
    /\ t # <<>>
    /\ Strip(t) \notin {<<"-">>, <<>>}
    /\ LET parts == Split(t, ",")
       IN  ~ /\ ar # NoPoint
             /\ Len(parts) = 2
             /\ IntFloat(parts[1]).tag = "int"
             /\ IntFloat(parts[2]).tag = "int"
             /\ <<IntFloat(parts[1]).val, IntFloat(parts[2]).val>> = ar

\* the condition of line 115: the text is set and is not the "-" sentinel
IsSet(t) == t # <<>> /\ Strip(t) \notin {<<"-">>, <<>>}

\* line 117, with 2 replaced by "at least 2"
ArityAtLeast(parts) == Len(parts) >= 2

\* line 117: exactly two comma-separated fields
ArityOk(parts) == Len(parts) = 2

\* line 123: the exceptions the inner try absorbs
Caught(e) == e = "ValueError"

\* lines 115-124 on one text: a Point to return, "unsettled" (poll again), or
\* the exception that leaves the function. int(float(parts[0])) is evaluated
\* first; parts[1] is not looked at when parts[0] fails.
Settle(t) ==
    IF ~IsSet(t) THEN [tag |-> "unsettled"]
    ELSE LET parts == Split(t, ",")
         IN  IF ~ArityOk(parts) THEN [tag |-> "unsettled"]
             ELSE LET x == IntFloat(parts[1])
                      y == IntFloat(parts[2])
                      e == IF x.tag # "int" THEN x.tag ELSE y.tag
                  IN  IF x.tag = "int" /\ y.tag = "int"
                      THEN [tag |-> "point", x |-> x.val, y |-> y.val]
                      ELSE IF Caught(e) THEN [tag |-> "unsettled"]
                      ELSE [tag |-> "raise", exc |-> e]

\* line 111 with <= for <
LoopCondLe(e, t) == e <= t

\* line 111: while time.time() - start < timeout
LoopCond(e, t) == e < t

-----------------------------------------------------------------------------
(* The target application *)

\* The application re-renders the probe element at any moment. Only the reads of
\* get_ar_object_coords observe the element, so the updates are taken where a
\* read can follow them: while the function looks for the element or is about
\* to poll it.
AppUpdate ==
    /\ driver = "open"
    /\ bpc \in {"presence", "loop"}
    /\ \E p \in ProbeStates \ {probe} : probe' = p
    /\ UNCHANGED <<mainVars, bridgeVars, lastOp, exc>>

-----------------------------------------------------------------------------
(* get_ar_object_coords *)

\* the locals of get_ar_object_coords while it is not being called
BridgeInit ==
    /\ bpc = "idle"
    /\ timeout = 0
    /\ elapsed = 0
    /\ pollCount = 0
    /\ text = Unread
    /\ result = NoPoint

\* get_ar_object_coords has returned or raised: its locals are gone
BridgeReset ==
    /\ bpc' = "idle"
    /\ timeout' = 0
    /\ elapsed' = 0
    /\ pollCount' = 0
    /\ text' = Unread
    /\ result' = NoPoint

\* lines 93-95: entry with timeout t (seconds)
get_ar_object_coords(t) ==
    /\ bpc = "idle"
    /\ bpc' = "presence"
    /\ timeout' = t * TicksPerSec
    /\ elapsed' = 0
    /\ pollCount' = 0
    /\ text' = Unread
    /\ result' = NoPoint
    /\ UNCHANGED <<mainVars, lastOp, exc, probe>>

\* presence_of_element_located never failing
AlwaysFound(p) == TRUE

\* lines 98-100: presence_of_element_located finds the element
PresenceFound(p) == p # Missing

\* lines 97-108: WebDriverWait(driver, 5).until(presence_of_element_located):
\* look for the element, sleep the poll interval, give up once 5 s are exceeded;
\* on giving up print the diagnostics and raise. Line 110 on success.
PresencePoll ==
    /\ bpc = "presence"
    /\ IF PresenceFound(probe)
       THEN /\ bpc' = "loop"
            /\ elapsed' = 0
            /\ lastOp' = "find_element"
            /\ exc' = exc
       ELSE \E d \in 0..MaxLatency :
              LET e == elapsed + d + PollInterval
              IN  IF e > PresenceSec * TicksPerSec
                  THEN /\ bpc' = "raised"
                       /\ exc' = "ProbeNeverAppeared"
                       /\ lastOp' = "page_source"
                       /\ elapsed' = e
                  ELSE /\ bpc' = "presence"
                       /\ exc' = exc
                       /\ lastOp' = "find_element"
                       /\ elapsed' = e
    /\ UNCHANGED <<mainVars, timeout, pollCount, text, result, probe>>

\* NoSuchElementException leaving the function
NoSuchElementRaises == [tag |-> "raise", exc |-> "NoSuchElementException"]

\* lines 126-128: NoSuchElementException is caught and the loop goes on
OnNoSuchElement == [tag |-> "unsettled"]

\* lines 111-124, 126-127: the loop test, the read of the element (taking d
\* ticks) and the parse of its text
Poll ==
    /\ bpc = "loop"
    /\ LoopCond(elapsed, timeout)
    /\ pollCount' = pollCount + 1
    /\ lastOp' = "find_element"
    /\ text' = probe
    /\ \E d \in 0..MaxLatency : elapsed' = elapsed + d
    /\ LET s == IF probe = Missing THEN OnNoSuchElement ELSE Settle(probe)
       IN       CASE s.tag = "point" ->
                       /\ bpc' = "returned"
                       /\ result' = <<s.x, s.y>>
                       /\ exc' = exc
                  [] s.tag = "unsettled" ->
                       /\ bpc' = "sleep"
                       /\ UNCHANGED <<result, exc>>
                  [] s.tag = "raise" ->
                       /\ bpc' = "raised"
                       /\ exc' = s.exc
                       /\ result' = result
    /\ UNCHANGED <<mainVars, timeout, probe>>

\* lines 125, 128: time.sleep(0.5), then the next iteration
Sleep ==
    /\ bpc = "sleep"
    /\ bpc' = "loop"
    /\ elapsed' = elapsed + PollInterval
    /\ text' = Unread
    /\ UNCHANGED <<mainVars, timeout, pollCount, result, lastOp, exc, probe>>

\* lines 111, 129: the loop ends and the function raises
BridgeTimeout ==
    /\ bpc = "loop"
    /\ ~LoopCond(elapsed, timeout)
    /\ bpc' = "raised"
    /\ exc' = "BridgeTimeout"
    /\ UNCHANGED <<mainVars, timeout, elapsed, pollCount, text, result, lastOp, probe>>

Bridge == PresencePoll \/ Poll \/ Sleep \/ BridgeTimeout

\* a bare call of get_ar_object_coords(driver, timeout=t)
HarnessCall ==
    /\ pc = "harness"
    /\ \E t \in HarnessTimeouts : get_ar_object_coords(t)

-----------------------------------------------------------------------------
(* switch_to_web_context *)

\* A context identifier is a sequence of fragments; "X in context" (substring
\* test) holds when X is one of the fragments.
NATIVE_APP == <<"NATIVE_APP">>
WEBVIEW_example == <<"WEBVIEW", "_com.example">>
CHROMIUM == <<"CHROMIUM">>
webview_lower == <<"webview", "_stub">>

ContextIds == {NATIVE_APP, WEBVIEW_example, CHROMIUM, webview_lower}

\* the longest enumeration driver.contexts returns
MaxContexts == 3

\* the enumerations driver.contexts may return: lists without repetition
ContextLists ==
    UNION {{cs \in [1..n -> ContextIds] : \A i, j \in 1..n : i # j => cs[i] # cs[j]}
           : n \in 0..MaxContexts}

Contains(context, frag) == \E i \in 1..Len(context) : context[i] = frag

\* line 138, ignoring the case of the identifier
IsWebAnyCase(context) ==
    \/ Contains(context, "WEBVIEW") \/ Contains(context, "CHROMIUM")
    \/ Contains(context, "webview")

\* line 138: "WEBVIEW" in context or "CHROMIUM" in context
IsWeb(context) == Contains(context, "WEBVIEW") \/ Contains(context, "CHROMIUM")

NoContext == <<>>

\* lines 136-140 taking the last match
LastWeb(cs) ==
    IF \E i \in 1..Len(cs) : IsWeb(cs[i])
    THEN cs[CHOOSE i \in 1..Len(cs) : IsWeb(cs[i]) /\ \A j \in (i + 1)..Len(cs) : ~IsWeb(cs[j])]
    ELSE NoContext

\* lines 136-140: the first context of the list that is a web context, or None
FirstWeb(cs) ==
    IF \E i \in 1..Len(cs) : IsWeb(cs[i])
    THEN cs[CHOOSE i \in 1..Len(cs) : IsWeb(cs[i]) /\ \A j \in 1..(i - 1) : ~IsWeb(cs[j])]
    ELSE NoContext

\* lines 132-147, called at line 186
switch_to_web_context ==
    /\ pc = "switch"
    /\ \E cs \in ContextLists :
         LET web_context == FirstWeb(cs)
         IN  /\ contexts' = cs
             /\ IF web_context # NoContext
                THEN /\ current_context' = web_context
                     /\ lastOp' = "switch_context"
                     /\ retval' = "True"
                ELSE /\ current_context' = current_context
                     /\ lastOp' = "contexts"
                     /\ retval' = "False"
    /\ pc' = "switched"
    /\ UNCHANGED <<step, driver, quitCount, ans, shots, gestured, gestureAt, ar, exc,
                   bridgeVars, probe>>

-----------------------------------------------------------------------------
(* run_step *)

A_y == <<"y">>
A_Y == <<"Y">>
A_ysp == <<" ", "y", " ">>
A_n == <<"n">>
A_N == <<"N">>
A_yes == <<"y", "e", "s">>
A_empty == <<>>

\* the lines the operator may type
Answers == {A_y, A_Y, A_ysp, A_n, A_N, A_yes, A_empty}

\* lines 153-154 comparing the first letter only
AcceptedStartsWith(a) == Lower(Strip(a)) # <<>> /\ Head(Lower(Strip(a))) = "y"

\* lines 153-154: input(...).strip().lower() == "y"
Accepted(a) == Lower(Strip(a)) = <<"y">>

Steps == <<"place", "reset", "move", "grow", "shrink">>

StepAfter(s) == Steps[(CHOOSE i \in 1..Len(Steps) : Steps[i] = s) + 1]

Center == <<"center_x", "center_y">>

\* the later gestures given (ar_y, ar_x)
GestureArgsSwapped(s) == IF s = "place" THEN Center ELSE <<ar[2], ar[1]>>

\* lines 200, 209, 216, 222, 228: the point given to the step's gesture
GestureArgs(s) == IF s = "place" THEN Center ELSE ar

\* lines 205, 210, 218, 224: the timeout of the read that follows the step
StepTimeout(s) == IF s = "place" THEN InitialTimeoutSec ELSE RereadTimeoutSec

\* an exception leaves the try block of __main__ (line 233)
Throw(e) == exc' = e /\ pc' = "except"

\* line 153-154, 161-163: the prompt; a declined step returns False
Prompt ==
    /\ pc = "prompt"
    /\ \E a \in Answers :
         /\ ans' = a
         /\ IF Accepted(a)
            THEN pc' = "before" /\ retval' = "none"
            ELSE pc' = "stepdone" /\ retval' = "False"
    /\ shots' = 0
    /\ gestured' = 0
    /\ gestureAt' = NoPoint
    /\ UNCHANGED <<step, driver, quitCount, lastOp, contexts, current_context, ar, exc,
                   bridgeVars, probe>>

\* run_step without its first capture
ShotBeforeSkipped ==
    /\ pc = "before"
    /\ pc' = "gesture"
    /\ UNCHANGED <<step, driver, quitCount, lastOp, contexts, current_context, ans,
                   retval, shots, gestured, gestureAt, ar, exc, bridgeVars, probe>>

\* line 156 (take_screenshot, lines 15-18): driver.save_screenshot may fail
ShotBefore ==
    /\ pc = "before"
    /\ lastOp' = "save_screenshot"
    /\ \/ pc' = "gesture" /\ shots' = shots + 1 /\ exc' = exc
       \/ Throw("WebDriverException") /\ shots' = shots
    /\ UNCHANGED <<step, driver, quitCount, contexts, current_context, ans, retval,
                   gestured, gestureAt, ar, bridgeVars, probe>>

\* line 157: func(*args), one of tap, long_press, drag_and_drop, two_finger_pinch
\* (lines 21-88); the driver call may fail
Gesture ==
    /\ pc = "gesture"
    /\ lastOp' = "gesture"
    /\ gestureAt' = GestureArgs(step)
    /\ \/ pc' = "after" /\ gestured' = gestured + 1 /\ exc' = exc
       \/ Throw("WebDriverException") /\ gestured' = gestured
    /\ UNCHANGED <<step, driver, quitCount, contexts, current_context, ans, retval,
                   shots, ar, bridgeVars, probe>>

\* lines 158-160: the grace wait, the second screenshot, return True
ShotAfter ==
    /\ pc = "after"
    /\ lastOp' = "save_screenshot"
    /\ \/ pc' = "stepdone" /\ shots' = shots + 1 /\ retval' = "True" /\ exc' = exc
       \/ Throw("WebDriverException") /\ shots' = shots /\ retval' = retval
    /\ UNCHANGED <<step, driver, quitCount, contexts, current_context, ans,
                   gestured, gestureAt, ar, bridgeVars, probe>>

run_step == Prompt \/ ShotBefore \/ Gesture \/ ShotAfter

-----------------------------------------------------------------------------
(* __main__ *)

\* line 182: webdriver.Remote attaches to the session, or fails
Connect ==
    /\ pc = "connect"
    /\ \/ driver' = "open" /\ pc' = "switch" /\ exc' = exc
       \/ driver' = driver /\ Throw("WebDriverException")
    /\ UNCHANGED <<step, quitCount, lastOp, contexts, current_context, ans, retval,
                   shots, gestured, gestureAt, ar, bridgeVars, probe>>

\* lines 186-188 going on without a web context
CheckSwitchWarnOnly ==
    /\ pc = "switched"
    /\ pc' = "size"
    /\ retval' = "none"
    /\ contexts' = <<>>
    /\ UNCHANGED <<step, driver, quitCount, lastOp, current_context, ans,
                   shots, gestured, gestureAt, ar, exc, bridgeVars, probe>>

\* lines 186-188: no web context is fatal
CheckSwitch ==
    /\ pc = "switched"
    /\ IF retval = "True"
       THEN pc' = "size" /\ exc' = exc
       ELSE Throw("Exception")
    /\ retval' = "none"
    /\ contexts' = <<>>
    /\ UNCHANGED <<step, driver, quitCount, lastOp, current_context, ans,
                   shots, gestured, gestureAt, ar, bridgeVars, probe>>

\* lines 191-196: driver.get_window_size(), which may fail; step 1 follows
WindowSize ==
    /\ pc = "size"
    /\ lastOp' = "get_window_size"
    /\ \/ pc' = "prompt" /\ step' = "place" /\ exc' = exc
       \/ Throw("WebDriverException") /\ step' = step
    /\ UNCHANGED <<driver, quitCount, contexts, current_context, ans, retval,
                   shots, gestured, gestureAt, ar, bridgeVars, probe>>

\* a read after the place step only
ReadFollowsPlaceOnly(s, r) == s = "place"

\* a read after an accepted step only
ReadFollowsAccepted(s, r) == r = "True"

\* lines 200-205, 209-210, 216-218, 222-224: the read after the place step is
\* outside the if; the reads after reset, move and grow are inside it
ReadFollows(s, r) == s = "place" \/ r = "True"

\* lines 200-201, 209, 216, 222, 228-231: what follows run_step's return value.
\* The read after the place step is unconditional; shrink has no read.
StepDone ==
    /\ pc = "stepdone"
    /\ IF step = "shrink"
       THEN pc' = "finally" /\ step' = step
       ELSE IF ReadFollows(step, retval)
       THEN pc' = "read" /\ step' = step
       ELSE pc' = "prompt" /\ step' = StepAfter(step)
    /\ retval' = "none"
    /\ ans' = <<>>
    /\ shots' = 0
    /\ gestured' = 0
    /\ UNCHANGED <<driver, quitCount, lastOp, contexts, current_context, gestureAt, ar,
                   exc, bridgeVars, probe>>

\* lines 205, 210, 218, 224: the call of get_ar_object_coords
ReadCoords ==
    /\ pc = "read"
    /\ get_ar_object_coords(StepTimeout(step))

\* lines 205, 210, 218, 224: ar_x, ar_y = <the returned point>
ReadReturn ==
    /\ pc = "read"
    /\ bpc = "returned"
    /\ ar' = result
    /\ BridgeReset
    /\ pc' = "prompt"
    /\ step' = StepAfter(step)
    /\ UNCHANGED <<driver, quitCount, lastOp, contexts, current_context, ans, retval,
                   shots, gestured, gestureAt, exc, probe>>

\* an exception of get_ar_object_coords reaches line 233
ReadRaise ==
    /\ pc = "read"
    /\ bpc = "raised"
    /\ BridgeReset
    /\ pc' = "except"
    /\ UNCHANGED <<step, driver, quitCount, lastOp, contexts, current_context, ans,
                   retval, shots, gestured, gestureAt, ar, exc, probe>>

\* an except block that resumes the steps
ExceptResumes == "prompt"

\* lines 233-238: after the except block comes the finally block
ExceptTarget == "finally"

\* lines 233-236: print the error and the traceback
Except ==
    /\ pc = "except"
    /\ pc' = ExceptTarget
    /\ UNCHANGED <<step, driver, quitCount, lastOp, contexts, current_context, ans,
                   retval, shots, gestured, gestureAt, ar, exc, bridgeVars, probe>>

\* lines 238-242 with the quit dropped when an exception was caught
ShouldQuitOnSuccess(d, e) == d # "None" /\ e = "none"

\* line 239: if driver
ShouldQuit(d, e) == d # "None"

\* lines 238-242: end the session if one was attached
Finally ==
    /\ pc = "finally"
    /\ IF ShouldQuit(driver, exc)
       THEN driver' = "quit" /\ quitCount' = quitCount + 1 /\ lastOp' = "quit"
       ELSE UNCHANGED <<driver, quitCount, lastOp>>
    /\ pc' = "exit"
    /\ UNCHANGED <<step, contexts, current_context, ans, retval, shots, gestured,
                   gestureAt, ar, exc, bridgeVars, probe>>

Main ==
    \/ Connect \/ switch_to_web_context \/ CheckSwitch \/ WindowSize
    \/ run_step \/ StepDone \/ ReadCoords \/ ReadReturn \/ ReadRaise
    \/ Except \/ Finally

-----------------------------------------------------------------------------
(* Specifications *)

\* the program at line 180
Init ==
    /\ pc = "connect"
    /\ step = "none"
    /\ driver = "None"
    /\ quitCount = 0
    /\ lastOp = "none"
    /\ contexts = <<>>
    /\ current_context = NATIVE_APP
    /\ ans = <<>>
    /\ retval = "none"
    /\ shots = 0
    /\ gestured = 0
    /\ gestureAt = NoPoint
    /\ ar = NoPoint
    /\ exc = "none"
    /\ BridgeInit
    /\ probe \in ProbeStates

Next == Main \/ Bridge \/ AppUpdate

Spec == Init /\ [][Next]_vars

\* a bare call of get_ar_object_coords on an attached driver in a web context
InitBridge ==
    /\ pc = "harness"
    /\ step = "none"
    /\ driver = "open"
    /\ quitCount = 0
    /\ lastOp = "none"
    /\ contexts = <<>>
    /\ current_context = WEBVIEW_example
    /\ ans = <<>>
    /\ retval = "none"
    /\ shots = 0
    /\ gestured = 0
    /\ gestureAt = NoPoint
    /\ ar = NoPoint
    /\ exc = "none"
    /\ BridgeInit
    /\ probe \in ProbeStates

NextBridge == HarnessCall \/ Bridge \/ AppUpdate

SpecBridge == InitBridge /\ [][NextBridge]_vars

-----------------------------------------------------------------------------
(* Properties of get_ar_object_coords, checked under SpecBridge *)

\* the encodings "a,b" of two decimal numbers among the probe texts, with the
\* point (trunc(a), trunc(b)) each one stands for
ExpectedPoint ==
    (T_valid :> <<120, 340>>) @@ (T_frac :> <<12, 3>>) @@ (T_neg :> <<0, -7>>)

ValidTexts == DOMAIN ExpectedPoint

\* this step is a settle-phase poll (a read of the probe element's text)
IsPoll == bpc = "loop" /\ pollCount' = pollCount + 1

\* C1: a poll that observes a valid encoding "a,b" returns (trunc(a), trunc(b))
\* at once, whatever the earlier polls of the call observed; only such a poll
\* returns; and once the call has returned it polls no more.
C1_FirstValidReturns ==
    [][ /\ IsPoll /\ probe \in ValidTexts
            => bpc' = "returned" /\ result' = ExpectedPoint[probe] /\ exc' = "none"
        /\ IsPoll /\ bpc' = "returned" => probe \in ValidTexts
        /\ bpc = "returned"
            => bpc' = "returned" /\ pollCount' = pollCount /\ result' = result
      ]_vars

\* "", "-", "120," were absorbed and the fourth poll of a call with a 5 s timeout
\* returned (120, 340)
C1_Witness ==
    /\ bpc = "returned"
    /\ timeout = 5 * TicksPerSec
    /\ pollCount = 4
    /\ text = T_valid
    /\ result = <<120, 340>>
    /\ exc = "none"

\* the malformed forms the specification lists
ListedForms == {T_empty, T_dash, T_nocomma, T_alpha, T_three}

\* C2: a poll that observes "", "-", "12", "a,b" or "1,2,3" raises nothing and
\* returns nothing, the call sleeps and comes back to the loop, and while the
\* timeout has not elapsed the next thing the loop does is another poll.
C2_ListedFormsAbsorbed ==
    [][ /\ IsPoll /\ probe \in ListedForms
            => bpc' = "sleep" /\ exc' = "none" /\ result' = NoPoint
        /\ bpc = "sleep" => bpc' = "loop" /\ exc' = "none" /\ result' = NoPoint
        /\ bpc = "loop" /\ elapsed < timeout /\ probe' = probe => IsPoll
      ]_vars

\* "1,2,3" was absorbed by the second poll of a call
C2_Witness ==
    /\ bpc = "sleep"
    /\ text = T_three
    /\ pollCount = 2
    /\ exc = "none"
    /\ result = NoPoint

\* C3: whatever the probe element holds, the call ends by returning a Point or
\* by one of its two timeouts; no content makes it raise anything else.
C3_NoContentRaises ==
    bpc = "raised" => exc \in {"BridgeTimeout", "ProbeNeverAppeared"}

\* C4: no poll starts once timeout ticks have elapsed since the start of the
\* settle phase; a loop that finds the timeout elapsed raises BridgeTimeout
\* without reading the element again; and BridgeTimeout is raised only then,
\* with no Point returned.
C4_TimeoutEndsPolling ==
    [][ /\ IsPoll => elapsed < timeout
        /\ bpc = "loop" /\ elapsed >= timeout /\ probe' = probe
            => /\ bpc' = "raised" /\ exc' = "BridgeTimeout"
               /\ pollCount' = pollCount /\ lastOp' = lastOp /\ result' = NoPoint
        /\ exc' = "BridgeTimeout"
            => bpc' = "raised" /\ elapsed' >= timeout' /\ result' = NoPoint
      ]_vars

\* a call with a 5 s timeout polled ten times without a valid text and timed out
C4_Witness ==
    /\ bpc = "raised"
    /\ exc = "BridgeTimeout"
    /\ timeout = 5 * TicksPerSec
    /\ pollCount = 10
    /\ elapsed >= timeout
    /\ result = NoPoint

\* C5: the settle loop is entered only when the element was found; when the
\* element stays absent for the 5 s of the presence wait the call raises
\* ProbeNeverAppeared, having read no text and returned no Point.
C5_ProbeNeverAppeared ==
    [][ /\ bpc = "presence" /\ probe = Missing /\ probe' = probe
            => \/ bpc' = "presence" /\ elapsed' <= PresenceSec * TicksPerSec
               \/ /\ bpc' = "raised" /\ exc' = "ProbeNeverAppeared"
                  /\ elapsed' > PresenceSec * TicksPerSec
        /\ exc' = "ProbeNeverAppeared"
            => /\ bpc' = "raised" /\ pollCount' = 0
               /\ text' = Unread /\ result' = NoPoint
      ]_vars

\* the element never appeared and the call failed before any poll
C5_Witness ==
    /\ bpc = "raised"
    /\ exc = "ProbeNeverAppeared"
    /\ probe = Missing
    /\ pollCount = 0
    /\ result = NoPoint

-----------------------------------------------------------------------------
(* Properties of run_step, switch_to_web_context and __main__, checked under Spec *)

\* what a declined prompt must leave behind: run_step has returned False having
\* issued no driver call, and __main__ then moves on with the same coordinates
\* and still no driver call
Declined ==
    /\ retval' = "False" /\ pc' = "stepdone"
    /\ shots' = 0 /\ gestured' = 0 /\ gestureAt' = NoPoint
    /\ lastOp' = lastOp /\ ar' = ar /\ exc' = exc

AfterDecline ==
    pc = "stepdone" /\ retval = "False"
        => lastOp' = lastOp /\ ar' = ar /\ shots' = 0 /\ gestured' = 0

\* C6 as stated: every answer other than "y" and "Y" declines the step.
C6_AsStated ==
    [][ /\ pc = "prompt" /\ ans' \notin {A_y, A_Y} => Declined
        /\ AfterDecline
      ]_vars

\* the answers that are "y" or "Y" once surrounding whitespace is dropped
AffirmativeAnswers == {A_y, A_Y, A_ysp}

\* C6, amended: every answer that is not "y" or "Y" after surrounding whitespace
\* is dropped makes run_step return False with no gesture and no screenshot, and
\* leaves (ar_x, ar_y) as they were.
C6_DeclineNoEffect ==
    [][ /\ pc = "prompt" /\ ans' \notin AffirmativeAnswers => Declined
        /\ AfterDecline
      ]_vars

\* the reset step was declined with "yes" while coordinates were known
C6_Witness ==
    /\ pc = "stepdone"
    /\ step = "reset"
    /\ ans = A_yes
    /\ retval = "False"
    /\ ar = <<120, 340>>
    /\ shots = 0
    /\ gestured = 0
    /\ lastOp = "find_element"

\* the identifiers that match the web-context naming pattern
WebIds == {WEBVIEW_example, CHROMIUM}

\* this step is the call of switch_to_web_context
IsSwitch == pc = "switch" /\ pc' = "switched"

\* C7: when the enumeration holds a web context, the handle is switched to the
\* first one in list order and the call returns true; the handle is never
\* switched to a context that is not a web context.
C7_FirstWebContext ==
    [][ IsSwitch =>
          /\ \A i \in 1..Len(contexts') :
               contexts'[i] \in WebIds /\ (\A j \in 1..(i - 1) : contexts'[j] \notin WebIds)
                   => current_context' = contexts'[i] /\ retval' = "True"
          /\ current_context' # current_context => current_context' \in WebIds
          /\ contexts' = <<NATIVE_APP, WEBVIEW_example>>
                   => current_context' = WEBVIEW_example
      ]_vars

\* of two web contexts the first was selected
C7_Witness ==
    /\ pc = "switched"
    /\ contexts = <<NATIVE_APP, CHROMIUM, WEBVIEW_example>>
    /\ current_context = CHROMIUM
    /\ retval = "True"

\* C8: with no web context in the enumeration the call returns false, issues no
\* context switch and leaves the active context as it was; when the call
\* returns true the active context is a web context of the enumeration.
C8_SwitchFrame ==
    [][ IsSwitch =>
          /\ (\A i \in 1..Len(contexts') : contexts'[i] \notin WebIds)
                => /\ retval' = "False"
                   /\ current_context' = current_context
                   /\ lastOp' # "switch_context"
          /\ retval' = "True"
                => /\ current_context' \in WebIds
                   /\ \E i \in 1..Len(contexts') : contexts'[i] = current_context'
                   /\ lastOp' = "switch_context"
      ]_vars

\* an enumeration without a web context left the handle in the native context
C8_Witness ==
    /\ pc = "switched"
    /\ contexts = <<NATIVE_APP, webview_lower>>
    /\ retval = "False"
    /\ current_context = NATIVE_APP
    /\ lastOp = "contexts"

\* C9: driver.quit() is called at most once; a run that attached a session has
\* called it exactly once when it exits; and once the session is ended the
\* program is at its exit and quit is the last call the driver received.
C9_SessionEndedOnce ==
    /\ quitCount <= 1
    /\ pc = "exit" /\ driver # "None" => driver = "quit" /\ quitCount = 1
    /\ driver = "quit" => pc = "exit" /\ lastOp = "quit" /\ bpc = "idle"
    /\ quitCount = 1 => driver = "quit"

\* a run that failed with BridgeTimeout after an accepted step ended its session
C9_Witness ==
    /\ pc = "exit"
    /\ exc = "BridgeTimeout"
    /\ step = "move"
    /\ driver = "quit"
    /\ quitCount = 1

\* the positions of __main__ after an exception: the raising call unwinding,
\* the except block, the finally block, the exit
Teardown ==
    \/ pc \in {"except", "finally", "exit"}
    \/ pc = "read" /\ bpc = "raised"

\* C10: once a step has failed the run only tears down: the step is not run
\* again, no later step is prompted, and the driver receives no call but quit.
C10_FailureAborts ==
    [][ exc # "none" =>
          /\ Teardown /\ Teardown'
          /\ exc' = exc /\ step' = step /\ ar' = ar /\ ans' = ans
          /\ shots' = shots /\ gestured' = gestured /\ gestureAt' = gestureAt
          /\ pollCount' \in {pollCount, 0}
          /\ lastOp' \in {lastOp, "quit"}
      ]_vars

\* the gesture of the grow step failed and the run went to its except block
C10_Witness ==
    /\ pc = "except"
    /\ step = "grow"
    /\ exc = "WebDriverException"
    /\ lastOp = "gesture"
    /\ ar = <<12, 3>>

-----------------------------------------------------------------------------
(* Further properties of run_step, __main__ and get_ar_object_coords *)

\* this step is a screenshot capture that failed
ShotFailed == pc \in {"before", "after"} /\ lastOp' = "save_screenshot" /\ shots' = shots

\* C11: a failed capture does not end the step: after a failed "before" capture
\* the gesture is still to be invoked, after a failed "after" capture run_step
\* returns True, and no exception reaches __main__.
C11_ScreenshotFailureNonFatal ==
    [][ ShotFailed =>
          /\ exc' = "none"
          /\ pc = "before" => pc' = "gesture"
          /\ pc = "after" => pc' = "stepdone" /\ retval' = "True"
      ]_vars

\* a point that is set has two non-negative components
NonNegative(p) == p # NoPoint => p[1] >= 0 /\ p[2] >= 0

\* C12: every Point get_ar_object_coords returns, and so the carried-forward
\* (ar_x, ar_y), has two non-negative components.
C12_PointsNonNegative == NonNegative(result) /\ NonNegative(ar)

\* this step invokes the gesture of a step other than place
IsLaterGesture == pc = "gesture" /\ lastOp' = "gesture" /\ step # "place"

\* C13: the long-press, drag and pinch gestures are given the carried-forward
\* coordinates; these are assigned the Point of every successful read and
\* change in no other way, so they are the Point of the latest successful read;
\* once set they change only by a read that follows an executed gesture, and a
\* skipped reset, move or grow step leaves them as they were.
C13_GesturesUseLatestRead ==
    [][ /\ IsLaterGesture => ar # NoPoint /\ gestureAt' = ar
        /\ pc = "read" /\ bpc = "returned" => ar' = result
        /\ ar' # ar => pc = "read" /\ bpc = "returned" /\ ar' = result
        /\ ar # NoPoint /\ ar' # ar => gestureAt = ar
        /\ pc = "stepdone" /\ retval = "False" /\ step \in {"reset", "move", "grow"}
              => ar' = ar /\ pc' = "prompt" /\ bpc' = "idle"
      ]_vars

\* the drag of the move step started at the point the latest read returned
C13_Witness ==
    /\ pc = "after"
    /\ step = "move"
    /\ gestured = 1
    /\ gestureAt = <<12, 3>>
    /\ ar = <<12, 3>>

\* C14: a read is pending only while __main__ waits for it, so no prompt,
\* screenshot or gesture runs beside it; an executed place, reset, move or grow
\* step is followed by a read; the read is left only when it has returned a
\* Point (next prompt) or raised (except block); and after a failure no gesture
\* position is entered again.
C14_GesturesAndReadsAlternate ==
    [][ /\ bpc # "idle" => pc = "read"
        /\ bpc' # "idle" => pc' = "read"
        /\ pc = "after" /\ pc' # pc
              => \/ pc' = "stepdone" /\ retval' = "True"
                 \/ pc' = "except"
        /\ pc = "stepdone" /\ retval = "True" /\ step # "shrink"
              => pc' = "read" /\ bpc' = "idle" /\ step' = step
        /\ pc = "read" /\ bpc = "idle" => pc' = "read" /\ bpc' = "presence"
        /\ pc = "read" /\ pc' # "read"
              => \/ bpc = "returned" /\ pc' = "prompt"
                 \/ bpc = "raised" /\ pc' = "except"
        /\ exc # "none" => pc' \notin {"prompt", "before", "gesture", "after"}
      ]_vars

\* the read that followed the executed long-press of the reset step returned
C14_Witness ==
    /\ pc = "read"
    /\ step = "reset"
    /\ bpc = "returned"
    /\ gestureAt = <<120, 340>>
    /\ result = <<12, 3>>

\* C15: an accepted run_step starts with no capture and no gesture done; the
\* gesture is invoked once, after exactly the "before" capture; the "after"
\* capture is taken once, after the gesture has completed; and run_step
\* returns True only with both captures and the one gesture done.
C15_StepOrder ==
    [][ /\ pc = "prompt" /\ pc' = "before" => shots' = 0 /\ gestured' = 0
        /\ pc = "before" /\ shots' # shots
              => shots = 0 /\ gestured = 0 /\ shots' = 1 /\ pc' = "gesture"
        /\ pc = "gesture" => shots = 1 /\ gestured = 0
        /\ gestured' > gestured
              => pc = "gesture" /\ gestured' = 1 /\ shots' = 1 /\ pc' = "after"
        /\ pc = "after" => shots = 1 /\ gestured = 1
        /\ shots' > shots => pc \in {"before", "after"} /\ lastOp' = "save_screenshot"
        /\ pc = "after" /\ shots' # shots
              => shots' = 2 /\ gestured' = 1 /\ retval' = "True" /\ pc' = "stepdone"
        /\ pc' = "stepdone" /\ retval' = "True" => shots' = 2 /\ gestured' = 1
      ]_vars

\* the accepted grow step returned True after capture, gesture, capture
C15_Witness ==
    /\ pc = "stepdone"
    /\ step = "grow"
    /\ retval = "True"
    /\ shots = 2
    /\ gestured = 1
    /\ gestureAt = ar
    /\ lastOp = "save_screenshot"

\* C16: a settle-phase poll that finds the element missing raises nothing and
\* returns nothing, however many polls came before; the call sleeps and polls
\* again while the timeout has not elapsed; a later poll that reads a valid
\* text returns its Point; and a call in its settle phase ends with
\* BridgeTimeout when the timeout has elapsed, never with ProbeNeverAppeared.
C16_MissingElementAbsorbed ==
    [][ /\ IsPoll /\ probe = Missing
              => /\ bpc' = "sleep" /\ text' = Missing
                 /\ exc' = "none" /\ result' = NoPoint
        /\ bpc = "sleep" /\ text = Missing
              => bpc' = "loop" /\ exc' = "none" /\ elapsed' = elapsed + PollInterval
        /\ bpc = "loop" /\ elapsed < timeout /\ probe' = probe => IsPoll
        /\ IsPoll /\ pollCount >= 1 /\ probe = T_valid
              => bpc' = "returned" /\ result' = <<120, 340>>
        /\ bpc = "loop" /\ elapsed >= timeout /\ probe' = probe => exc' = "BridgeTimeout"
        /\ bpc \in {"loop", "sleep"} => exc' # "ProbeNeverAppeared"
      ]_vars

\* the tenth poll of a call with a 15 s timeout found the element missing and
\* the call went on
C16_Witness ==
    /\ bpc = "sleep"
    /\ text = Missing
    /\ probe = Missing
    /\ pollCount = 10
    /\ timeout = DefaultTimeoutSec * TicksPerSec
    /\ exc = "none"

\* the run was aborted by the failed context switch before any step: nothing
\* was prompted, captured, gestured or read, and the driver has received no
\* call since the enumeration of the contexts except quit
AbortedBeforeSteps ==
    /\ pc \in {"except", "finally", "exit"}
    /\ step = "none" /\ ans = <<>>
    /\ shots = 0 /\ gestured = 0 /\ gestureAt = NoPoint
    /\ ar = NoPoint /\ bpc = "idle" /\ pollCount = 0
    /\ lastOp \in {"contexts", "quit"}
    /\ current_context = NATIVE_APP

\* C17: when switch_to_web_context returns false, __main__ raises at once;
\* from then on no step is prompted and no screenshot, gesture or read is
\* issued; and the finally block ends the session.
C17_NoWebContextIsFatal ==
    [][ /\ pc = "switched" /\ retval = "False"
              => pc' = "except" /\ exc' = "Exception"
        /\ exc = "Exception" => AbortedBeforeSteps /\ AbortedBeforeSteps'
        /\ exc = "Exception" /\ pc = "finally"
              => driver' = "quit" /\ quitCount' = 1 /\ lastOp' = "quit" /\ pc' = "exit"
      ]_vars

\* a run without a web context ended its session having run no step
C17_Witness ==
    /\ pc = "exit"
    /\ exc = "Exception"
    /\ step = "none"
    /\ driver = "quit"
    /\ quitCount = 1
    /\ lastOp = "quit"
    /\ current_context = NATIVE_APP

\* C18: the read after the place step is made whether the step was accepted
\* or declined, with a timeout of 20 s (40 ticks); if that read fails the run
\* stays at the place step and prompts nothing more; the reads after reset,
\* move and grow are made exactly when the step was accepted, with a timeout
\* of 10 s (20 ticks); and nothing is read after the shrink step.
C18_InitialReadMandatory ==
    [][ /\ pc = "stepdone" /\ step = "place" => pc' = "read" /\ step' = "place"
        /\ pc = "stepdone" /\ step \in {"reset", "move", "grow"}
              => /\ pc' = "read" <=> retval = "True"
                 /\ pc' = "prompt" <=> retval = "False"
        /\ pc = "read" /\ bpc = "idle"
              => /\ bpc' = "presence"
                 /\ timeout' = IF step = "place" THEN 40 ELSE 20
        /\ pc = "read" /\ bpc = "raised" => pc' = "except" /\ step' = step
        /\ exc # "none" /\ step = "place" => step' = "place" /\ pc' # "prompt"
        /\ step = "shrink" => pc' # "read" /\ bpc' = "idle"
        /\ pc = "stepdone" /\ step = "shrink" => pc' = "finally"
      ]_vars

\* the place step was declined and the initial read was made all the same
C18_Witness ==
    /\ pc = "read"
    /\ step = "place"
    /\ gestureAt = NoPoint
    /\ lastOp = "find_element"
    /\ bpc = "returned"
    /\ timeout = 40
    /\ result = <<120, 340>>

\* C19: the Point a call of get_ar_object_coords returns is the one encoded by
\* the probe content of the poll that returns, whatever Point the caller holds
\* from an earlier call and whatever step or gesture came before; so the first
\* poll of a re-read that finds the probe still holding the encoding of the
\* Point already held returns that same Point; and the caller takes over
\* exactly the Point returned.
C19_PointFromProbeOnly ==
    [][ /\ IsPoll /\ pc = "read" /\ bpc' = "returned"
            => probe \in ValidTexts /\ result' = ExpectedPoint[probe]
        /\ ( /\ IsPoll /\ pc = "read" /\ step \in {"reset", "move", "grow"}
             /\ pollCount = 0 /\ probe \in ValidTexts /\ ExpectedPoint[probe] = ar )
            => bpc' = "returned" /\ result' = ar
        /\ pc = "read" /\ bpc = "returned" => ar' = result
      ]_vars

\* the move gesture was made at (12, 3) and the first poll of the re-read after
\* it returned (12, 3) again
C19_Witness ==
    /\ pc = "read"
    /\ step = "move"
    /\ bpc = "returned"
    /\ pollCount = 1
    /\ gestureAt = <<12, 3>>
    /\ ar = <<12, 3>>
    /\ result = <<12, 3>>

====
